---- MODULE Spec2Model ----
(***************************************************************************)
(* Sentry Jamii wildlife reporting app: the screen-flow controller of      *)
(* AppContent, the CameraCapture and ReportGeneration components, the      *)
(* offline queue in localStorage, the mock classifier and the hosted       *)
(* backend as seen through the supabase client.                            *)
(***************************************************************************)
EXTENDS Integers, Sequences, FiniteSets, TLC

\* ---------------------------------------------------------------- bounds
\* submissions (clicks on "Submit Report" that pass the location guard) per run
MaxSubmits == 1
\* capture callbacks (fetch().then of confirmPhoto, FileReader.onload) in flight
MaxPendingCaptures == 1
\* runs of the [imageFile] effect of one ReportGeneration instance in flight
MaxEffectRuns == 1
\* signIn / signUp, and signOut, requests in flight
MaxPendingAuth == 1
\* Math.random() returns k / RandomDenom for k in 0 .. RandomDenom - 1
RandomDenom == 2
\* calls of the classifier compared with each other
MaxCalls == 2
\* reports in the offline queue when its functions are called directly
MaxQueue == 2
\* ids of rows of the table reports when requests are made of it directly
MaxRows == 1
\* updates of one row of reports (each moves updated_at on)
MaxRowUpdates == 1
\* rows of reports in the database when the admin dashboard is opened
MaxAdminRows == 3
\* deleteReport / deleteUser calls of the admin dashboard in flight
MaxAdminCalls == 2

\* ---------------------------------------------------------------- values
\* JavaScript null / undefined for string-valued fields; an optional object is
\* the empty sequence (null) or a one-element sequence holding it.
NULL == "null"
UNDEFINED == "undefined"
None == <<>>
Some(x) == <<x>>

AppState ==
  {"splash", "userSelection", "auth", "camera", "report",
   "rangerDashboard", "adminDashboard", "complete"}

\* ids of the entries of userTypes on the selection screen
userTypes == {"community", "anonymous", "ranger", "admin"}

\* UserProfile.user_type
ProfileTypes == {"community", "ranger", "admin"}

UserIds == {"u1"}

\* the File/dataUrl pair handed to onCapture by confirmPhoto
CameraImage == [file |-> "wildlife-photo.jpg", dataUrl |-> "data:camera"]
\* the File/dataUrl pair handed to onCapture by handleFileUpload
GalleryImage == [file |-> "gallery.jpg", dataUrl |-> "data:gallery"]

\* coordinates in units of 1e-4 degree
DefaultLocation == [latitude |-> -12921, longitude |-> 368219]
\* positions the geolocation success callback may deliver
Positions == {[latitude |-> 0, longitude |-> 345000]}

RandomSamples == 0 .. (RandomDenom - 1)
\* the draws behind the animal type a report screen shows: the type is carried
\* into the report and never inspected, so one draw stands for all
ScreenSamples == {0}

VARIABLES
  \* AppContent
  currentState, selectedUserType, capturedImage,
  \* useAuth()
  loading, user, profile,
  \* browser environment
  onLine, geolocationAvailable, storageDenied, localStorage,
  \* timers and promises in flight
  resetTimers, signInPending, signOutPending, pendingCaptures,
  \* CameraCapture
  cameraActive, cameraError, cameraCapturedImage,
  \* ReportGeneration
  analyzing, submitting, animalType, location, error, report,
  geoPending, analysisPending, geoResult,
  \* submissions started, in order; hosted backend; downloaded PDFs
  subs, storageObjects, reportsTable, pdfs,
  \* classifier calls compared with each other
  anFile, anLog, anNameLog,
  \* direct calls of the offline-queue functions: the last call, and the
  \* reports saved without a storage error since the queue was last cleared
  lastCall, savesSinceClear,
  \* the database reached directly through the REST interface: the table
  \* user_profiles, the user_type each profile was created with, the last request
  user_profiles, profileAtSignUp, lastRequest,
  \* AdminDashboard: its state, its deleteReport / deleteUser calls in flight
  \* (each with the reports and users of the render it was started from), and
  \* the delete call that finished on the last step
  reports, users, analytics, adminLoading, deleting, adminCalls, lastDelete

appVars == <<currentState, selectedUserType, capturedImage>>
authVars == <<loading, user, profile>>
envVars == <<onLine, geolocationAvailable, storageDenied>>
cameraVars == <<cameraActive, cameraError, cameraCapturedImage>>
reportVars == <<analyzing, submitting, animalType, location, error, report,
                geoPending, analysisPending, geoResult>>
backendVars == <<storageObjects, reportsTable>>
dbVars == <<user_profiles, profileAtSignUp, lastRequest>>
adminVars == <<reports, users, analytics, adminLoading, deleting, adminCalls,
               lastDelete>>
anVars == <<anFile, anLog, anNameLog, lastCall, savesSinceClear, dbVars, adminVars>>

vars == <<currentState, selectedUserType, capturedImage, loading, user, profile,
          onLine, geolocationAvailable, storageDenied, localStorage,
          resetTimers, signInPending, signOutPending, pendingCaptures,
          cameraActive, cameraError, cameraCapturedImage,
          analyzing, submitting, animalType, location, error, report,
          geoPending, analysisPending, geoResult,
          subs, storageObjects, reportsTable, pdfs, anFile, anLog, anNameLog,
          lastCall, savesSinceClear, user_profiles, profileAtSignUp, lastRequest,
          reports, users, analytics, adminLoading, deleting, adminCalls,
          lastDelete>>

\* ------------------------------------------------------------ classifier
animalTypes ==
  <<"Lion", "Elephant", "Giraffe", "Zebra", "Cheetah", "Leopard",
    "Buffalo", "Rhinoceros", "Hippopotamus", "Antelope", "Gazelle",
    "Wildebeest", "Hyena", "Wild Dog", "Baboon", "Monkey", "Bird">>

\* utils/aiAnalysis.ts; k1, k2 are the two Math.random() draws. confidence is
\* Math.round((r * 0.3 + 0.7) * 100) / 100, kept in percent.
analyzeAnimalImage(imageFile, k1, k2) ==
  [animalType |-> animalTypes[((k1 * Len(animalTypes)) \div RandomDenom) + 1],
   confidence |-> 70 + ((2 * 30 * k2 + RandomDenom) \div (2 * RandomDenom))]

\* a comparison of the raw first letter: no case conversion
toUpperCase_Identity(c) == c

\* String.prototype.toUpperCase on the letters that occur in FileNames
toUpperCase(c) ==
  CASE c = "b" -> "B" [] c = "z" -> "Z" [] c = "r" -> "R" [] c = "e" -> "E"
    [] c = "w" -> "W" [] c = "g" -> "G" [] OTHER -> c

\* file.name[0]?.toUpperCase(); a file name is a sequence of characters
firstLetter(name) == IF name = <<>> THEN UNDEFINED ELSE toUpperCase(name[1])

\* the if/else chain on firstLetter
speciesOf(letter) ==
  CASE letter = "B" -> "Buffalo"
    [] letter = "Z" -> "Zebra"
    [] letter = "R" -> "Rhino"
    [] letter = "E" -> "Elephant"
    [] OTHER -> "Unknown"

\* the second analyzeAnimalImage (by file name); k is the Math.random() draw.
\* The template string `${animalType} (${confidence}%)` is the pair of its parts.
analyzeAnimalImageByFileName(name, k) ==
  [animalType |-> <<speciesOf(firstLetter(name)), ((k * 9) \div RandomDenom) + 92>>]

FileNames ==
  {<<"b", "u", "f">>, <<"B", "i", "g">>, <<"Z", "e", "b">>, <<"r", "h">>,
   <<"e">>, <<"w", "i", "l", "d">>, <<>>}

\* --------------------------------------------------------- offline queue
\* fields of an OfflineReport whose value may be undefined
OptionalKeys == {"user_id"}

\* JSON.stringify of one object: a key whose value is undefined is left out
stringifyObject(o) ==
  [k \in {key \in DOMAIN o : ~(key \in OptionalKeys /\ o[key] = UNDEFINED)} |-> o[k]]

\* JSON.parse of one object, read through the OfflineReport interface: a key
\* that is absent reads as undefined
parseObject(keys, s) ==
  [k \in keys |-> IF k \in DOMAIN s THEN s[k] ELSE UNDEFINED]

OfflineReportKeys ==
  {"tempId", "user_id", "animal_type", "image_url", "imageDataUrl",
   "latitude", "longitude", "status", "timestamp"}

JSONstringify(list) == [i \in 1 .. Len(list) |-> stringifyObject(list[i])]
JSONparse(text) == [i \in 1 .. Len(text) |-> parseObject(OfflineReportKeys, text[i])]

\* localStorage is None (no item under OFFLINE_REPORTS_KEY) or Some(text).
\* With storage access denied getItem throws and the catch returns [].
getOfflineReports ==
  IF storageDenied THEN <<>>
  ELSE IF localStorage = None THEN <<>> ELSE JSONparse(localStorage[1])

\* the new report replaces the stored list
saveOfflineReport_Overwrite(r, setItemFails) ==
  IF storageDenied \/ setItemFails THEN localStorage
  ELSE Some(JSONstringify(<<r>>))

\* The item after saveOfflineReport(r); setItemFails: setItem throws (quota).
saveOfflineReport(r, setItemFails) ==
  IF storageDenied \/ setItemFails THEN localStorage
  ELSE Some(JSONstringify(Append(getOfflineReports, r)))

\* the item is left in place
clearOfflineReports_Noop == localStorage

\* The item after clearOfflineReports(): removeItem throws only when access
\* to storage is denied.
clearOfflineReports == IF storageDenied THEN localStorage ELSE None

\* syncOfflineReports: clears the queue, sends nothing
syncOfflineReports == clearOfflineReports

\* ------------------------------------------------------------ AppContent
\* a screen name outside AppState for rangers
authEffect_Unlisted(cs, ld, u, p) ==
  IF ~ld /\ u # NULL /\ p # NULL
  THEN CASE p = "ranger" -> "dashboard"
         [] p = "admin" -> "adminDashboard"
         [] p = "community" -> "camera"
         [] OTHER -> cs
  ELSE cs

\* the two dashboards exchanged
authEffect_Swapped(cs, ld, u, p) ==
  IF ~ld /\ u # NULL /\ p # NULL
  THEN CASE p = "ranger" -> "adminDashboard"
         [] p = "admin" -> "rangerDashboard"
         [] p = "community" -> "camera"
         [] OTHER -> cs
  ELSE cs

\* the auth useEffect: the screen it leaves the controller on
authEffect(cs, ld, u, p) ==
  IF ~ld /\ u # NULL /\ p # NULL
  THEN CASE p = "ranger" -> "rangerDashboard"
         [] p = "admin" -> "adminDashboard"
         [] p = "community" -> "camera"
         [] OTHER -> cs
  ELSE cs

\* every user type is sent to the sign-in page
userTypeTarget_AlwaysAuth(userType) == "auth"

\* handleUserTypeSelection: the screen chosen for a user type
userTypeTarget(userType) == IF userType = "anonymous" THEN "camera" ELSE "auth"

\* the switch of AppContent: which component is mounted
SplashScreenShown == ~loading /\ currentState = "splash"
UserTypeSelectionShown == ~loading /\ currentState = "userSelection"
AuthPageShown == ~loading /\ currentState = "auth"
CameraCaptureShown == ~loading /\ currentState = "camera"
ReportGenerationShown == ~loading /\ currentState = "report" /\ capturedImage # None
DashboardShown == ~loading /\ currentState \in {"rangerDashboard", "adminDashboard"}

\* isAnonymous prop of ReportGeneration
isAnonymous == selectedUserType = "anonymous"

\* setState of an unmounted instance is dropped: its submissions go on detached
Detach(s) == [i \in 1 .. Len(s) |-> [s[i] EXCEPT !.attached = FALSE]]

\* useState initial values of CameraCapture
CameraCaptureInit ==
  /\ cameraActive' = FALSE
  /\ cameraError' = ""
  /\ cameraCapturedImage' = None

\* useState initial values of ReportGeneration; runs is the number of runs of
\* the [imageFile] effect started (1 on mount, 0 while unmounted)
ReportGenerationInit(runs) ==
  /\ analyzing' = TRUE
  /\ submitting' = FALSE
  /\ animalType' = ""
  /\ location' = None
  /\ error' = ""
  /\ report' = None
  /\ geoResult' = None
  /\ geoPending' = IF geolocationAvailable THEN runs ELSE 0
  /\ analysisPending' = runs

\* One render of AppContent after setCurrentState(cs), setCapturedImage(img):
\* components are mounted, kept or unmounted by the switch; newFile says that
\* the imageFile prop is a new File object; s is the list of submissions.
Render(cs, img, newFile, s) ==
  /\ currentState' = cs
  /\ capturedImage' = img
  /\ IF cs = "camera" /\ CameraCaptureShown
     THEN UNCHANGED cameraVars
     ELSE CameraCaptureInit
  /\ IF cs = "report" /\ img # None
     THEN IF ReportGenerationShown
          THEN /\ UNCHANGED <<analyzing, submitting, animalType, location, error,
                              report, geoResult>>
               /\ geoPending' = IF newFile /\ geolocationAvailable
                                THEN geoPending + 1 ELSE geoPending
               /\ analysisPending' = IF newFile THEN analysisPending + 1
                                     ELSE analysisPending
               /\ subs' = s
          ELSE /\ ReportGenerationInit(1)
               /\ subs' = Detach(s)
     ELSE /\ ReportGenerationInit(0)
          /\ subs' = Detach(s)

\* AuthProvider finishes loading the stored session
AuthSessionLoaded(u, p) ==
  /\ loading
  /\ p # NULL => u # NULL
  /\ loading' = FALSE /\ user' = u /\ profile' = p
  /\ Render(authEffect(currentState, FALSE, u, p), capturedImage, FALSE, subs)
  /\ UNCHANGED <<selectedUserType, envVars, localStorage, resetTimers,
                 signInPending, signOutPending, pendingCaptures, backendVars, pdfs, anVars>>

\* handleSubmit of AuthPage: signIn / signUp is started and awaited
handleSubmit ==
  /\ AuthPageShown
  /\ signInPending < MaxPendingAuth
  /\ signInPending' = signInPending + 1
  /\ UNCHANGED <<appVars, authVars, envVars, localStorage, resetTimers,
                 signOutPending, pendingCaptures, cameraVars, reportVars, subs,
                 backendVars, pdfs, anVars>>

\* signIn / signUp settles: resolved, the session of user u with profile p is
\* set and the auth effect runs; rejected, only AuthPage shows the error
SignInSettled(ok, u, p) ==
  /\ signInPending > 0
  /\ signInPending' = signInPending - 1
  /\ IF ok
     THEN /\ user' = u /\ profile' = p
          /\ Render(authEffect(currentState, FALSE, u, p), capturedImage, FALSE, subs)
     ELSE UNCHANGED <<user, profile, currentState, capturedImage, cameraVars,
                      reportVars, subs>>
  /\ UNCHANGED <<loading, selectedUserType, envVars, localStorage, resetTimers,
                 signOutPending, pendingCaptures, backendVars, pdfs, anVars>>

\* the 3 s timer of SplashScreen calls onComplete = handleSplashComplete
handleSplashComplete ==
  /\ SplashScreenShown
  /\ Render("userSelection", capturedImage, FALSE, subs)
  /\ UNCHANGED <<selectedUserType, authVars, envVars, localStorage, resetTimers,
                 signInPending, signOutPending, pendingCaptures, backendVars, pdfs, anVars>>

handleUserTypeSelection(userType) ==
  /\ UserTypeSelectionShown
  /\ selectedUserType' = userType
  /\ Render(userTypeTarget(userType), capturedImage, FALSE, subs)
  /\ UNCHANGED <<authVars, envVars, localStorage, resetTimers,
                 signInPending, signOutPending, pendingCaptures, backendVars, pdfs, anVars>>

\* state written by handleBackToUserSelection and by the reset timer
BackToUserSelection ==
  /\ selectedUserType' = ""
  /\ Render("userSelection", None, FALSE, subs)

\* onBack of AuthPage, CameraCapture, RangerDashboard, AdminDashboard
handleBackToUserSelection ==
  /\ AuthPageShown \/ CameraCaptureShown \/ DashboardShown
  /\ BackToUserSelection
  /\ UNCHANGED <<authVars, envVars, localStorage, resetTimers,
                 signInPending, signOutPending, pendingCaptures, backendVars, pdfs, anVars>>

\* onBack of ReportGeneration (the button is not rendered while analyzing)
handleBackToCamera ==
  /\ ReportGenerationShown /\ ~analyzing
  /\ Render("camera", None, FALSE, subs)
  /\ UNCHANGED <<selectedUserType, authVars, envVars, localStorage, resetTimers,
                 signInPending, signOutPending, pendingCaptures, backendVars, pdfs, anVars>>

\* the callback of setTimeout(..., 3000) in handleReportComplete
ResetTimer ==
  /\ resetTimers > 0
  /\ resetTimers' = resetTimers - 1
  /\ BackToUserSelection
  /\ UNCHANGED <<authVars, envVars, localStorage,
                 signInPending, signOutPending, pendingCaptures, backendVars, pdfs, anVars>>

\* the Sign Out button of a dashboard: await signOut() is started
SignOutClick ==
  /\ DashboardShown
  /\ signOutPending < MaxPendingAuth
  /\ signOutPending' = signOutPending + 1
  /\ UNCHANGED <<signInPending, appVars, authVars, envVars, localStorage, resetTimers,
                 pendingCaptures, cameraVars, reportVars, subs, backendVars,
                 pdfs, anVars>>

\* signOut() settles: resolved, the session is gone and onBack() runs;
\* rejected, the handler ends there
SignOutSettled(ok) ==
  /\ signOutPending > 0
  /\ signOutPending' = signOutPending - 1
  /\ IF ok
     THEN /\ user' = NULL /\ profile' = NULL
          /\ BackToUserSelection
     ELSE UNCHANGED <<user, profile, appVars, cameraVars, reportVars, subs>>
  /\ UNCHANGED <<loading, envVars, localStorage, resetTimers, signInPending,
                 pendingCaptures, backendVars, pdfs, anVars>>

\* --------------------------------------------------------- CameraCapture
\* startCamera; ok: getUserMedia resolved with a stream
startCamera(ok) ==
  /\ CameraCaptureShown /\ ~cameraActive /\ cameraCapturedImage = None
  /\ cameraError' = IF ok THEN "" ELSE "Unable to access camera. Please check permissions."
  /\ cameraActive' = ok
  /\ UNCHANGED <<cameraCapturedImage, appVars, authVars, envVars, localStorage,
                 resetTimers, signInPending, signOutPending, pendingCaptures, reportVars, subs,
                 backendVars, pdfs, anVars>>

\* the Cancel button
stopCamera ==
  /\ CameraCaptureShown /\ cameraActive /\ cameraCapturedImage = None
  /\ cameraActive' = FALSE
  /\ UNCHANGED <<cameraError, cameraCapturedImage, appVars, authVars, envVars,
                 localStorage, resetTimers, signInPending, signOutPending, pendingCaptures,
                 reportVars, subs, backendVars, pdfs, anVars>>

\* the Capture button: canvas.toDataURL, then stopCamera()
capturePhoto ==
  /\ CameraCaptureShown /\ cameraActive /\ cameraCapturedImage = None
  /\ cameraCapturedImage' = Some(CameraImage.dataUrl)
  /\ cameraActive' = FALSE
  /\ UNCHANGED <<cameraError, appVars, authVars, envVars, localStorage,
                 resetTimers, signInPending, signOutPending, pendingCaptures, reportVars, subs,
                 backendVars, pdfs, anVars>>

\* the Retake button: setCapturedImage(null); startCamera()
retakePhoto(ok) ==
  /\ CameraCaptureShown /\ cameraCapturedImage # None
  /\ cameraCapturedImage' = None
  /\ cameraError' = IF ok THEN "" ELSE "Unable to access camera. Please check permissions."
  /\ cameraActive' = ok
  /\ UNCHANGED <<appVars, authVars, envVars, localStorage, resetTimers,
                 signInPending, signOutPending, pendingCaptures, reportVars, subs, backendVars,
                 pdfs, anVars>>

\* the Confirm button: fetch(capturedImage) is started; onCapture runs later
confirmPhoto ==
  /\ CameraCaptureShown /\ cameraCapturedImage # None
  /\ Len(pendingCaptures) < MaxPendingCaptures
  /\ pendingCaptures' =
       Append(pendingCaptures,
              [file |-> CameraImage.file, dataUrl |-> cameraCapturedImage[1]])
  /\ UNCHANGED <<appVars, authVars, envVars, localStorage, resetTimers,
                 signInPending, signOutPending, cameraVars, reportVars, subs, backendVars,
                 pdfs, anVars>>

\* a file is chosen from the gallery: reader.readAsDataURL is started
handleFileUpload ==
  /\ CameraCaptureShown /\ ~cameraActive /\ cameraCapturedImage = None
  /\ Len(pendingCaptures) < MaxPendingCaptures
  /\ pendingCaptures' = Append(pendingCaptures, GalleryImage)
  /\ UNCHANGED <<appVars, authVars, envVars, localStorage, resetTimers,
                 signInPending, signOutPending, cameraVars, reportVars, subs, backendVars,
                 pdfs, anVars>>

\* fetch().then / reader.onload calls onCapture = handleImageCapture
handleImageCapture(i) ==
  /\ i \in 1 .. Len(pendingCaptures)
  /\ ReportGenerationShown =>
       analysisPending < MaxEffectRuns /\ geoPending < MaxEffectRuns
  /\ pendingCaptures' = [j \in 1 .. (Len(pendingCaptures) - 1) |->
                           IF j < i THEN pendingCaptures[j] ELSE pendingCaptures[j + 1]]
  /\ Render("report", Some(pendingCaptures[i]), TRUE, subs)
  /\ UNCHANGED <<selectedUserType, authVars, envVars, localStorage, resetTimers,
                 signInPending, signOutPending, backendVars, pdfs, anVars>>

\* ------------------------------------------------------ ReportGeneration
\* getCurrentPosition success callback
GeolocationSuccess(position) ==
  /\ geoPending > 0
  /\ geoPending' = geoPending - 1
  /\ location' = Some(position)
  /\ geoResult' = Some([kind |-> "success", coords |-> position])
  /\ UNCHANGED <<analyzing, submitting, animalType, error, report, analysisPending,
                 appVars, authVars, envVars, localStorage, resetTimers,
                 signInPending, signOutPending, pendingCaptures, cameraVars, subs, backendVars,
                 pdfs, anVars>>

\* getCurrentPosition error callback
GeolocationError ==
  /\ geoPending > 0
  /\ geoPending' = geoPending - 1
  /\ location' = Some(DefaultLocation)
  /\ geoResult' = Some([kind |-> "error", coords |-> DefaultLocation])
  /\ UNCHANGED <<analyzing, submitting, animalType, error, report, analysisPending,
                 appVars, authVars, envVars, localStorage, resetTimers,
                 signInPending, signOutPending, pendingCaptures, cameraVars, subs, backendVars,
                 pdfs, anVars>>

\* await analyzeAnimalImage(imageFile) returns
AnalysisDone(k1, k2) ==
  /\ analysisPending > 0
  /\ analysisPending' = analysisPending - 1
  /\ animalType' = analyzeAnimalImage(capturedImage[1].file, k1, k2).animalType
  /\ analyzing' = FALSE
  /\ UNCHANGED <<submitting, location, error, report, geoPending, geoResult,
                 appVars, authVars, envVars, localStorage, resetTimers,
                 signInPending, signOutPending, pendingCaptures, cameraVars, subs, backendVars,
                 pdfs, anVars>>

\* x || 0 on a number
orZero(x) == IF x = 0 THEN 0 ELSE x

\* the guard is missing
locationMissing_Never(loc) == FALSE

\* the default location is refused as well
locationMissing_Default(loc) == loc = None \/ loc = Some(DefaultLocation)

\* the guard of submitReport: !location
locationMissing(loc) == loc = None

\* isAnonymous is ignored
reportUserId_Session(anonymous, u) == IF u = NULL THEN UNDEFINED ELSE u

\* user_id: isAnonymous ? undefined : user?.id
reportUserId(anonymous, u) ==
  IF anonymous THEN UNDEFINED ELSE IF u = NULL THEN UNDEFINED ELSE u

\* createReport; id is crypto.randomUUID(), now the clock reading
createReport(id, now, anonymous, u, animal, loc) ==
  [id |-> id,
   user_id |-> reportUserId(anonymous, u),
   animal_type |-> animal,
   image_url |-> <<>>,
   latitude |-> IF loc = None THEN 0 ELSE orZero(loc[1].latitude),
   longitude |-> IF loc = None THEN 0 ELSE orZero(loc[1].longitude),
   status |-> "pending",
   created_at |-> now,
   updated_at |-> now]

\* the OfflineReport that submitReport hands to saveOfflineReport
offlineReport(newReport, imageDataUrl) ==
  [tempId |-> newReport.id,
   user_id |-> newReport.user_id,
   animal_type |-> newReport.animal_type,
   image_url |-> <<>>,
   imageDataUrl |-> imageDataUrl,
   latitude |-> newReport.latitude,
   longitude |-> newReport.longitude,
   status |-> newReport.status,
   timestamp |-> newReport.created_at]

\* the message as it is, with no fallback
errorMessage_Raw(err) == err.message

\* err.message || 'Failed to submit report'
errorMessage(err) == IF err.message = "" THEN "Failed to submit report" ELSE err.message

\* errors a rejected backend request or the PDF library may carry
Errors == {[message |-> "request failed"], [message |-> ""]}

\* outcomes of an awaited request: resolved, or rejected with an error
Outcomes == {[ok |-> TRUE, message |-> ""]} \cup
            {[ok |-> FALSE, message |-> e.message] : e \in Errors}

\* the returned error is not looked at
errorThrown_Never(outcome) == FALSE

\* if (error) throw error / if (dbError) throw dbError
errorThrown(outcome) == ~outcome.ok

\* the Submit Report button is rendered and enabled
SubmitEnabled ==
  ReportGenerationShown /\ ~analyzing /\ report = None /\ ~submitting

\* the submission started by this click of submitReport
NewSubmission(pc) ==
  LET id == Len(subs) + 1 IN
  [report |-> createReport(id, id, isAnonymous, user, animalType, location),
   pc |-> pc,
   attached |-> TRUE,
   online |-> onLine,
   imageDataUrl |-> capturedImage[1].dataUrl,
   geo |-> geoResult]

SetSub(i, pc, rep) == [subs EXCEPT ![i].pc = pc, ![i].report = rep]

\* submission i of s has returned: its frame no longer belongs to an instance
Return(s, i, pc) == [s EXCEPT ![i].pc = pc, ![i].attached = FALSE]

\* the timer is started, the screen is left as it is
handleReportComplete_NoScreen(s) ==
  /\ resetTimers' = resetTimers + 1
  /\ Render(currentState, capturedImage, FALSE, s)
  /\ UNCHANGED selectedUserType

\* handleReportComplete, called as onComplete: the thank-you screen and a timer
handleReportComplete(s) ==
  /\ resetTimers' = resetTimers + 1
  /\ Render("complete", capturedImage, FALSE, s)
  /\ UNCHANGED selectedUserType

\* catch and finally of submitReport as seen by the instance that started
\* submission i; wasSet: setReport(newReport) ran before the throw
SubmitFailed(i, err, wasSet) ==
  /\ subs' = Return(subs, i, "failed")
  /\ IF subs[i].attached
     THEN /\ error' = errorMessage(err)
          /\ submitting' = FALSE
          /\ report' = IF wasSet THEN Some(subs[i].report) ELSE report
     ELSE UNCHANGED <<error, submitting, report>>
  /\ UNCHANGED <<analyzing, animalType, location, geoPending, analysisPending,
                 geoResult, appVars, cameraVars, resetTimers>>

\* setReport, generateReportPDF, onComplete, finally: the tail of submitReport
SubmitTail(i, s, pdf) ==
  IF pdf.ok
  THEN /\ pdfs' = pdfs \cup {s[i].report.id}
       /\ handleReportComplete(Return(s, i, "complete"))
  ELSE /\ pdfs' = pdfs
       /\ subs' = Return(s, i, "pdfFailed")
       /\ IF s[i].attached
          THEN /\ error' = errorMessage(pdf)
               /\ submitting' = FALSE
               /\ report' = Some(s[i].report)
          ELSE UNCHANGED <<error, submitting, report>>
       /\ UNCHANGED <<analyzing, animalType, location, geoPending, analysisPending,
                      geoResult, appVars, cameraVars, resetTimers>>

\* submitReport with location null
submitReportNoLocation ==
  /\ SubmitEnabled
  /\ locationMissing(location)
  /\ error' = "Location is required"
  /\ UNCHANGED <<analyzing, submitting, animalType, location, report, geoPending,
                 analysisPending, geoResult, appVars, authVars, envVars,
                 localStorage, resetTimers, signInPending, signOutPending, pendingCaptures,
                 cameraVars, subs, backendVars, pdfs, anVars>>

\* submitReport with navigator.onLine true, up to await uploadImage
submitReportOnline ==
  /\ SubmitEnabled
  /\ ~locationMissing(location)
  /\ onLine
  /\ Len(subs) < MaxSubmits
  /\ submitting' = TRUE
  /\ error' = ""
  /\ subs' = Append(subs, NewSubmission("upload"))
  /\ UNCHANGED <<analyzing, animalType, location, report, geoPending,
                 analysisPending, geoResult, appVars, authVars, envVars,
                 localStorage, resetTimers, signInPending, signOutPending, pendingCaptures,
                 cameraVars, backendVars, pdfs, anVars>>

\* submitReport with navigator.onLine false: nothing is awaited before the PDF
submitReportOffline(setItemFails, pdf) ==
  /\ SubmitEnabled
  /\ ~locationMissing(location)
  /\ ~onLine
  /\ Len(subs) < MaxSubmits
  /\ LET new == NewSubmission("pdf")
         i == Len(subs) + 1
     IN /\ localStorage' =
             saveOfflineReport(offlineReport(new.report, new.imageDataUrl), setItemFails)
        /\ SubmitTail(i, Append(subs, new), pdf)
  /\ UNCHANGED <<authVars, envVars, signInPending, signOutPending, pendingCaptures,
                 backendVars, anVars>>

\* no URL is returned
getPublicUrl_Blank(fileName) == <<>>

\* storage.from('wildlife-images').getPublicUrl(fileName): the URL names the
\* object; the object of a report is named by the report id
getPublicUrl(fileName) == <<fileName>>

\* uploadImage settles
UploadDone(i, outcome) ==
  /\ i \in 1 .. Len(subs)
  /\ subs[i].pc = "upload"
  /\ storageObjects' = IF outcome.ok THEN storageObjects \cup {subs[i].report.id}
                       ELSE storageObjects
  /\ IF errorThrown(outcome)
     THEN SubmitFailed(i, outcome, FALSE)
     ELSE /\ subs' = SetSub(i, "insert",
                            [subs[i].report EXCEPT
                               !.image_url = getPublicUrl(subs[i].report.id)])
          /\ UNCHANGED <<reportVars, appVars, cameraVars, resetTimers>>
  /\ UNCHANGED <<authVars, envVars, localStorage, signInPending, signOutPending,
                 pendingCaptures, reportsTable, pdfs, anVars>>

\* supabase.from('reports').insert settles
InsertDone(i, outcome, pdf) ==
  /\ i \in 1 .. Len(subs)
  /\ subs[i].pc = "insert"
  /\ reportsTable' = IF outcome.ok THEN reportsTable \cup {subs[i].report}
                     ELSE reportsTable
  /\ IF errorThrown(outcome)
     THEN SubmitFailed(i, outcome, FALSE) /\ pdfs' = pdfs
     ELSE SubmitTail(i, subs, pdf)
  /\ UNCHANGED <<authVars, envVars, localStorage, signInPending, signOutPending,
                 pendingCaptures, storageObjects, anVars>>

\* the exported syncOfflineReports is called
SyncOfflineReports ==
  /\ localStorage' = syncOfflineReports
  /\ UNCHANGED <<appVars, authVars, envVars, resetTimers, signInPending, signOutPending,
                 pendingCaptures, cameraVars, reportVars, subs, backendVars,
                 pdfs, anVars>>

\* the browser goes online or offline
OnlineChange ==
  /\ ~loading
  /\ onLine' = ~onLine
  /\ UNCHANGED <<geolocationAvailable, storageDenied, appVars, authVars,
                 localStorage, resetTimers, signInPending, signOutPending, pendingCaptures,
                 cameraVars, reportVars, subs, backendVars, pdfs, anVars>>

\* ------------------------------------------- row-level security policies
\* auth.users ids that make requests of the database
DbUserIds == UserIds \cup {"u2"}

\* a request runs as role anon (no JWT) or as role authenticated with auth.uid()
Callers == {[role |-> "anon", uid |-> NULL]} \cup
           {[role |-> "authenticated", uid |-> u] : u \in DbUserIds}

\* CHECK (status IN (...)) of reports
Statuses == {"pending", "invalid", "updated", "ranger_assigned"}

\* "Users can read own profile": FOR SELECT TO authenticated USING (auth.uid() = id)
profilesSelectPolicy(c, row) == c.role = "authenticated" /\ c.uid = row.id

\* "Users can insert own profile": FOR INSERT TO authenticated WITH CHECK (auth.uid() = id)
profilesInsertPolicy(c, row) == c.role = "authenticated" /\ c.uid = row.id

\* "Users can update own profile": FOR UPDATE TO authenticated USING (auth.uid() = id)
profilesUpdatePolicy(c, row) == c.role = "authenticated" /\ c.uid = row.id

\* "Anyone can insert reports": FOR INSERT TO anon, authenticated WITH CHECK (true)
reportsInsertPolicy(c, row) == c.role \in {"anon", "authenticated"}

\* "Users can read all reports": FOR SELECT TO anon, authenticated USING (true)
reportsSelectPolicy(c, row) == c.role \in {"anon", "authenticated"}

\* EXISTS (SELECT 1 FROM user_profiles WHERE id = auth.uid() AND user_type IN types):
\* the subquery sees the rows the caller may select
callerProfileIn(c, types) ==
  \E p \in user_profiles :
    profilesSelectPolicy(c, p) /\ p.id = c.uid /\ p.user_type \in types

\* "Rangers and admins can update reports": FOR UPDATE TO authenticated
reportsUpdatePolicy(c, row) ==
  c.role = "authenticated" /\ callerProfileIn(c, {"ranger", "admin"})

\* "Admins can delete reports": FOR DELETE TO authenticated
reportsDeletePolicy(c, row) ==
  c.role = "authenticated" /\ callerProfileIn(c, {"admin"})

\* the request just made, whether it changed a row, the rows it returned
Request(table, cmd, c, changed) ==
  [table |-> table, cmd |-> cmd, caller |-> <<c>>, changed |-> changed, rows |-> {}]

NoRequest ==
  [table |-> "none", cmd |-> "none", caller |-> <<>>, changed |-> FALSE, rows |-> {}]

\* state a request of the database leaves alone
notDb == <<appVars, authVars, envVars, localStorage, resetTimers, signInPending,
           signOutPending, pendingCaptures, cameraVars, reportVars, subs,
           storageObjects, pdfs, anFile, anLog, anNameLog, lastCall,
           savesSinceClear, adminVars>>

\* INSERT INTO user_profiles (id, user_type): primary key, CHECK (user_type IN
\* (...)), and the insert policy
ProfilesInsert(c, id, t) ==
  LET row == [id |-> id, user_type |-> t]
      ok == /\ profilesInsertPolicy(c, row)
            /\ t \in ProfileTypes
            /\ \A p \in user_profiles : p.id # id
  IN /\ user_profiles' = IF ok THEN user_profiles \cup {row} ELSE user_profiles
     /\ profileAtSignUp' = IF ok THEN [profileAtSignUp EXCEPT ![id] = t]
                           ELSE profileAtSignUp
     /\ lastRequest' = Request("user_profiles", "INSERT", c, ok)
     /\ UNCHANGED <<reportsTable, notDb>>

\* UPDATE user_profiles SET user_type = t WHERE id = id: the rows the update
\* policy lets the caller see are changed; with no WITH CHECK the USING
\* expression is applied to the new row
ProfilesUpdate(c, id, t) ==
  LET hit == {p \in user_profiles :
                /\ p.id = id /\ profilesUpdatePolicy(c, p)
                /\ profilesUpdatePolicy(c, [p EXCEPT !.user_type = t])
                /\ t \in ProfileTypes}
  IN /\ user_profiles' = (user_profiles \ hit) \cup
                           {[p EXCEPT !.user_type = t] : p \in hit}
     /\ lastRequest' = Request("user_profiles", "UPDATE", c, hit # {})
     /\ UNCHANGED <<profileAtSignUp, reportsTable, notDb>>

\* a row of reports as the client inserts it
ReportRows ==
  {[createReport(id, id, FALSE, u, animalTypes[1], Some(DefaultLocation))
      EXCEPT !.image_url = <<id>>] :
     id \in 1 .. MaxRows, u \in DbUserIds \cup {NULL}}

\* INSERT INTO reports: primary key, the foreign key of user_id, the insert policy
ReportsInsert(c, row) ==
  LET ok == /\ reportsInsertPolicy(c, row)
            /\ \A r \in reportsTable : r.id # row.id
            /\ row.user_id = UNDEFINED \/ \E p \in user_profiles : p.id = row.user_id
  IN /\ reportsTable' = IF ok THEN reportsTable \cup {row} ELSE reportsTable
     /\ lastRequest' = Request("reports", "INSERT", c, ok)
     /\ UNCHANGED <<user_profiles, profileAtSignUp, notDb>>

\* SELECT * FROM reports
ReportsSelect(c) ==
  /\ lastRequest' = [Request("reports", "SELECT", c, FALSE) EXCEPT
                       !.rows = {r \in reportsTable : reportsSelectPolicy(c, r)}]
  /\ UNCHANGED <<user_profiles, profileAtSignUp, reportsTable, notDb>>

\* the trigger update_reports_updated_at: NEW.updated_at = now(), a later time
update_updated_at_column(new) == [new EXCEPT !.updated_at = new.updated_at + 1]

\* UPDATE reports SET status = st WHERE id = id
ReportsUpdate(c, id, st) ==
  LET hit == {r \in reportsTable :
                r.id = id /\ reportsUpdatePolicy(c, r) /\ st \in Statuses}
  IN /\ \A r \in reportsTable : r.updated_at - r.created_at < MaxRowUpdates
     /\ reportsTable' = (reportsTable \ hit) \cup
                          {update_updated_at_column([r EXCEPT !.status = st]) : r \in hit}
     /\ lastRequest' = Request("reports", "UPDATE", c, hit # {})
     /\ UNCHANGED <<user_profiles, profileAtSignUp, notDb>>

\* DELETE FROM reports WHERE id = id
ReportsDelete(c, id) ==
  LET hit == {r \in reportsTable : r.id = id /\ reportsDeletePolicy(c, r)}
  IN /\ reportsTable' = reportsTable \ hit
     /\ lastRequest' = Request("reports", "DELETE", c, hit # {})
     /\ UNCHANGED <<user_profiles, profileAtSignUp, notDb>>

\* no profile in the database, no request made of it
DbInit ==
  /\ user_profiles = {}
  /\ profileAtSignUp = [u \in DbUserIds |-> NULL]
  /\ lastRequest = NoRequest

\* -------------------------------------------------------- AdminDashboard
\* no DELETE policy is declared for user_profiles: with row-level security
\* enabled no row is visible to a DELETE
profilesDeletePolicy(c, row) == FALSE

\* statusCounts[st] || 0: the number of reports of a status
statusCount(reportsData, st) == Len(SelectSeq(reportsData, LAMBDA r : r.status = st))

\* animalCounts[name]: the number of reports of an animal type
animalCount(reportsData, name) ==
  Len(SelectSeq(reportsData, LAMBDA r : r.animal_type = name))

\* generateAnalytics: the object handed to setAnalytics. reportsByAnimal is
\* the set of its entries (at most ten animal types occur).
generateAnalytics(reportsData, usersData) ==
  [totalReports |-> Len(reportsData),
   totalUsers |-> Len(usersData),
   reportsByStatus |->
     [st \in Statuses |-> statusCount(reportsData, st)],
   reportsByAnimal |->
     {[name |-> reportsData[i].animal_type,
       count |-> animalCount(reportsData, reportsData[i].animal_type)] :
        i \in 1 .. Len(reportsData)},
   recentActivity |->
     SubSeq(reportsData, 1, IF Len(reportsData) < 5 THEN Len(reportsData) ELSE 5)]

\* the first element is dropped, whatever its id
removeById_Head(list, id) == IF list = <<>> THEN list ELSE Tail(list)

\* prev.filter(row => row.id !== id)
removeById(list, id) == SelectSeq(list, LAMBDA row : row.id # id)

\* .order('created_at', { ascending: false }) of a set of rows
RECURSIVE orderByCreatedAtDesc(_)
orderByCreatedAtDesc(rows) ==
  IF rows = {} THEN <<>>
  ELSE LET newest == CHOOSE r \in rows : \A q \in rows : q.created_at <= r.created_at
       IN <<newest>> \o orderByCreatedAtDesc(rows \ {newest})

\* the signed-in admin whose requests the dashboard makes
AdminCaller == [role |-> "authenticated", uid |-> "u1"]

NoDelete == [kind |-> "none", id |-> NULL, ok |-> FALSE, reports |-> <<>>,
             users |-> <<>>, analytics |-> <<>>, overlapped |-> FALSE]

\* useState initial values of AdminDashboard
AdminInit ==
  /\ reports = <<>> /\ users = <<>> /\ analytics = None
  /\ adminLoading = TRUE /\ deleting = NULL
  /\ adminCalls = <<>> /\ lastDelete = NoDelete

\* state the dashboard leaves alone
notAdmin == <<appVars, authVars, envVars, localStorage, resetTimers, signInPending,
              signOutPending, pendingCaptures, cameraVars, reportVars, subs,
              storageObjects, pdfs, anFile, anLog, anNameLog, lastCall,
              savesSinceClear, profileAtSignUp, lastRequest>>

\* fetchData, run by the mount effect; o1, o2 are the outcomes of the two selects
fetchData(o1, o2) ==
  /\ adminLoading
  /\ adminLoading' = FALSE
  /\ IF errorThrown(o1) \/ errorThrown(o2)
     THEN UNCHANGED <<reports, users, analytics>>
     ELSE LET reportsData ==
                orderByCreatedAtDesc(
                  {r \in reportsTable : reportsSelectPolicy(AdminCaller, r)})
              usersData ==
                orderByCreatedAtDesc(
                  {u \in user_profiles : profilesSelectPolicy(AdminCaller, u)})
          IN /\ reports' = reportsData
             /\ users' = usersData
             /\ analytics' = Some(generateAnalytics(reportsData, usersData))
  /\ lastDelete' = NoDelete
  /\ UNCHANGED <<deleting, adminCalls, reportsTable, user_profiles, notAdmin>>

\* a deleteReport / deleteUser call from its start to its await
StartDelete(kind, id) ==
  /\ ~adminLoading
  /\ deleting # id
  /\ Len(adminCalls) < MaxAdminCalls
  /\ deleting' = id
  /\ adminCalls' = Append(adminCalls, [kind |-> kind, id |-> id,
                                        reports |-> reports, users |-> users])
  /\ lastDelete' = NoDelete
  /\ UNCHANGED <<reports, users, analytics, adminLoading, reportsTable,
                 user_profiles, notAdmin>>

\* deleteReport(reportId) up to the await of the delete request
deleteReport(reportId) ==
  /\ \E i \in 1 .. Len(reports) : reports[i].id = reportId
  /\ StartDelete("report", reportId)

\* deleteUser(userId) up to the await of the delete request
deleteUser(userId) ==
  /\ \E i \in 1 .. Len(users) : users[i].id = userId
  /\ StartDelete("user", userId)

\* the calls in flight without call i
WithoutCall(i) ==
  [j \in 1 .. (Len(adminCalls) - 1) |->
     IF j < i THEN adminCalls[j] ELSE adminCalls[j + 1]]

\* the record of the call that finishes on this step
Finished(call, ok) ==
  [kind |-> call.kind, id |-> call.id, ok |-> ok, reports |-> reports,
   users |-> users, analytics |-> analytics, overlapped |-> Len(adminCalls) > 1]

\* the delete request of deleteReport settles; the rest of the call runs
deleteReportSettled(i, outcome) ==
  /\ i \in 1 .. Len(adminCalls)
  /\ adminCalls[i].kind = "report"
  /\ LET call == adminCalls[i]
         updatedReports == removeById(call.reports, call.id)
     IN /\ reportsTable' =
             IF outcome.ok
             THEN {r \in reportsTable :
                     ~(r.id = call.id /\ reportsDeletePolicy(AdminCaller, r))}
             ELSE reportsTable
        /\ IF errorThrown(outcome)
           THEN UNCHANGED <<reports, analytics>>
           ELSE /\ reports' = removeById(reports, call.id)
                /\ analytics' = Some(generateAnalytics(updatedReports, call.users))
        /\ lastDelete' = Finished(call, ~errorThrown(outcome))
  /\ deleting' = NULL
  /\ adminCalls' = WithoutCall(i)
  /\ UNCHANGED <<users, adminLoading, user_profiles, notAdmin>>

\* the delete request of deleteUser settles; the rest of the call runs
deleteUserSettled(i, outcome) ==
  /\ i \in 1 .. Len(adminCalls)
  /\ adminCalls[i].kind = "user"
  /\ LET call == adminCalls[i]
         updatedUsers == removeById(call.users, call.id)
     IN /\ user_profiles' =
             IF outcome.ok
             THEN {u \in user_profiles :
                     ~(u.id = call.id /\ profilesDeletePolicy(AdminCaller, u))}
             ELSE user_profiles
        /\ IF errorThrown(outcome)
           THEN UNCHANGED <<users, analytics>>
           ELSE /\ users' = removeById(users, call.id)
                /\ analytics' = Some(generateAnalytics(call.reports, updatedUsers))
        /\ lastDelete' = Finished(call, ~errorThrown(outcome))
  /\ deleting' = NULL
  /\ adminCalls' = WithoutCall(i)
  /\ UNCHANGED <<reports, adminLoading, reportsTable, notAdmin>>

\* ------------------------------------------------------------- the app
NoCall == [op |-> "none", before |-> <<>>, arg |-> <<>>, failed |-> FALSE]

\* the browser side of the app at its initial value
ClientInit ==
  /\ currentState = "splash"
  /\ selectedUserType = ""
  /\ capturedImage = None
  /\ loading = TRUE /\ user = NULL /\ profile = NULL
  /\ onLine = TRUE
  /\ resetTimers = 0 /\ signInPending = 0 /\ signOutPending = 0 /\ pendingCaptures = <<>>
  /\ cameraActive = FALSE /\ cameraError = "" /\ cameraCapturedImage = None
  /\ analyzing = TRUE /\ submitting = FALSE /\ animalType = ""
  /\ location = None /\ error = "" /\ report = None
  /\ geoPending = 0 /\ analysisPending = 0 /\ geoResult = None
  /\ subs = <<>> /\ pdfs = {}
  /\ localStorage = None

\* everything but the variables of the direct calls, at its initial value
AppInit ==
  /\ ClientInit
  /\ storageObjects = {} /\ reportsTable = {}

Init ==
  /\ AppInit
  /\ geolocationAvailable \in BOOLEAN
  /\ storageDenied = FALSE
  /\ anFile = <<>> /\ anLog = <<>> /\ anNameLog = <<>>
  /\ lastCall = NoCall /\ savesSinceClear = <<>>
  /\ DbInit
  /\ AdminInit

Next ==
  \/ \E u \in UserIds \cup {NULL}, p \in ProfileTypes \cup {NULL} : AuthSessionLoaded(u, p)
  \/ handleSubmit
  \/ \E ok \in BOOLEAN, u \in UserIds, p \in ProfileTypes : SignInSettled(ok, u, p)
  \/ handleSplashComplete
  \/ \E t \in userTypes : handleUserTypeSelection(t)
  \/ handleBackToUserSelection
  \/ handleBackToCamera
  \/ ResetTimer
  \/ SignOutClick
  \/ \E ok \in BOOLEAN : SignOutSettled(ok)
  \/ \E ok \in BOOLEAN : startCamera(ok)
  \/ stopCamera
  \/ capturePhoto
  \/ \E ok \in BOOLEAN : retakePhoto(ok)
  \/ confirmPhoto
  \/ handleFileUpload
  \/ \E i \in 1 .. MaxPendingCaptures : handleImageCapture(i)
  \/ \E position \in Positions : GeolocationSuccess(position)
  \/ GeolocationError
  \/ \E k1 \in ScreenSamples, k2 \in ScreenSamples : AnalysisDone(k1, k2)
  \/ submitReportNoLocation
  \/ submitReportOnline
  \/ \E f \in BOOLEAN, pdf \in Outcomes : submitReportOffline(f, pdf)
  \/ \E i \in 1 .. MaxSubmits, o \in Outcomes : UploadDone(i, o)
  \/ \E i \in 1 .. MaxSubmits, o \in Outcomes, pdf \in Outcomes : InsertDone(i, o, pdf)
  \/ SyncOfflineReports
  \/ OnlineChange

Spec == Init /\ [][Next]_vars

\* a timer set with setTimeout fires: the browser runs its callback
SpecTimers == Init /\ [][Next]_vars /\ WF_vars(ResetTimer)

\* ------------------------------------------- the classifier, called twice
appOnly == <<appVars, authVars, envVars, localStorage, resetTimers, signInPending,
             signOutPending, pendingCaptures, cameraVars, reportVars, subs,
             backendVars, pdfs>>

\* analyzeAnimalImage of utils/aiAnalysis.ts is called on anFile
CallAnalyze(k1, k2) ==
  /\ Len(anLog) < MaxCalls
  /\ anLog' = Append(anLog, analyzeAnimalImage(anFile, k1, k2))
  /\ UNCHANGED <<appOnly, anFile, anNameLog, lastCall, savesSinceClear, dbVars, adminVars>>

\* the analyzeAnimalImage that reads the file name is called on anFile
CallAnalyzeByFileName(k) ==
  /\ Len(anNameLog) < MaxCalls
  /\ anNameLog' = Append(anNameLog, analyzeAnimalImageByFileName(anFile, k))
  /\ UNCHANGED <<appOnly, anFile, anLog, lastCall, savesSinceClear, dbVars, adminVars>>

InitAnalyze ==
  /\ AppInit
  /\ geolocationAvailable = TRUE /\ storageDenied = FALSE
  /\ anFile \in FileNames /\ anLog = <<>> /\ anNameLog = <<>>
  /\ lastCall = NoCall /\ savesSinceClear = <<>>
  /\ DbInit
  /\ AdminInit

NextAnalyze ==
  \/ \E k1 \in RandomSamples, k2 \in RandomSamples : CallAnalyze(k1, k2)
  \/ \E k \in RandomSamples : CallAnalyzeByFileName(k)

SpecAnalyze == InitAnalyze /\ [][NextAnalyze]_vars

\* --------------------------------- the offline queue, called directly
\* reports submitReport may hand to saveOfflineReport
QueueReports ==
  {offlineReport(createReport(id, id, anonymous, u, animalTypes[1], Some(loc)),
                 image.dataUrl) :
     id \in 1 .. MaxQueue, anonymous \in BOOLEAN, u \in UserIds,
     loc \in {DefaultLocation} \cup Positions, image \in {CameraImage}}

notApp == <<appVars, authVars, onLine, geolocationAvailable, storageDenied,
            resetTimers, signInPending, signOutPending, pendingCaptures,
            cameraVars, reportVars, subs, backendVars, pdfs, anFile, anLog,
            anNameLog, dbVars, adminVars>>

CallSaveOfflineReport(r, setItemFails) ==
  /\ Len(getOfflineReports) < MaxQueue
  /\ localStorage' = saveOfflineReport(r, setItemFails)
  /\ lastCall' = [op |-> "save", before |-> getOfflineReports, arg |-> <<r>>,
                  failed |-> storageDenied \/ setItemFails]
  /\ savesSinceClear' = IF storageDenied \/ setItemFails THEN savesSinceClear
                        ELSE Append(savesSinceClear, r)
  /\ UNCHANGED notApp

CallClearOfflineReports ==
  /\ localStorage' = clearOfflineReports
  /\ lastCall' = [op |-> "clear", before |-> getOfflineReports, arg |-> <<>>,
                  failed |-> storageDenied]
  /\ savesSinceClear' = <<>>
  /\ UNCHANGED notApp

CallSyncOfflineReports ==
  /\ localStorage' = syncOfflineReports
  /\ lastCall' = [op |-> "sync", before |-> getOfflineReports, arg |-> <<>>,
                  failed |-> storageDenied]
  /\ savesSinceClear' = <<>>
  /\ UNCHANGED notApp

InitStorage ==
  /\ AppInit
  /\ geolocationAvailable = TRUE /\ storageDenied \in BOOLEAN
  /\ anFile = <<>> /\ anLog = <<>> /\ anNameLog = <<>>
  /\ lastCall = NoCall /\ savesSinceClear = <<>>
  /\ DbInit
  /\ AdminInit

NextStorage ==
  \/ \E r \in QueueReports, f \in BOOLEAN : CallSaveOfflineReport(r, f)
  \/ CallClearOfflineReports
  \/ CallSyncOfflineReports

SpecStorage == InitStorage /\ [][NextStorage]_vars

\* ------------------------- the database, requests made of it directly
\* the profiles present were each inserted by their owner at sign-up
InitPolicies ==
  /\ AppInit
  /\ geolocationAvailable = TRUE /\ storageDenied = FALSE
  /\ anFile = <<>> /\ anLog = <<>> /\ anNameLog = <<>>
  /\ lastCall = NoCall /\ savesSinceClear = <<>>
  /\ profileAtSignUp \in [DbUserIds -> ProfileTypes \cup {NULL}]
  /\ user_profiles = {[id |-> u, user_type |-> profileAtSignUp[u]] :
                        u \in {v \in DbUserIds : profileAtSignUp[v] # NULL}}
  /\ lastRequest = NoRequest
  /\ AdminInit

NextPolicies ==
  \/ \E c \in Callers, id \in DbUserIds, t \in ProfileTypes :
       ProfilesInsert(c, id, t)
  \/ \E c \in Callers, id \in DbUserIds, t \in ProfileTypes :
       ProfilesUpdate(c, id, t)
  \/ \E c \in Callers, row \in ReportRows : ReportsInsert(c, row)
  \/ \E c \in Callers : ReportsSelect(c)
  \/ \E c \in Callers, id \in 1 .. MaxRows, st \in Statuses :
       ReportsUpdate(c, id, st)
  \/ \E c \in Callers, id \in 1 .. MaxRows : ReportsDelete(c, id)

SpecPolicies == InitPolicies /\ [][NextPolicies]_vars

\* ------------------------------------------ the admin dashboard, mounted
\* ids of the rows of reports, oldest first
AdminReportIds == <<"r1", "r2", "r3", "r4", "r5">>

\* the database when the dashboard is opened: rows of reports and the
\* profiles of the admin and of one community member
InitAdmin ==
  /\ ClientInit
  /\ storageObjects = {}
  /\ geolocationAvailable = TRUE /\ storageDenied = FALSE
  /\ anFile = <<>> /\ anLog = <<>> /\ anNameLog = <<>>
  /\ lastCall = NoCall /\ savesSinceClear = <<>>
  /\ profileAtSignUp = [u \in DbUserIds |-> IF u = "u1" THEN "admin" ELSE "community"]
  /\ user_profiles = {[id |-> u, user_type |-> profileAtSignUp[u], created_at |-> 1] :
                        u \in DbUserIds}
  /\ lastRequest = NoRequest
  /\ AdminInit
  /\ \E n \in 0 .. MaxAdminRows :
       LET st == [k \in 1 .. n |-> IF k % 2 = 1 THEN "pending" ELSE "ranger_assigned"]
       IN reportsTable =
           {[id |-> AdminReportIds[k], user_id |-> UNDEFINED,
             animal_type |-> animalTypes[k], image_url |-> <<AdminReportIds[k]>>,
             latitude |-> DefaultLocation.latitude,
             longitude |-> DefaultLocation.longitude,
             status |-> st[k], created_at |-> k, updated_at |-> k] : k \in 1 .. n}

NextAdmin ==
  \/ \E o1 \in Outcomes, o2 \in Outcomes : fetchData(o1, o2)
  \/ \E k \in 1 .. MaxAdminRows : deleteReport(AdminReportIds[k])
  \/ \E u \in DbUserIds : deleteUser(u)
  \/ \E i \in 1 .. MaxAdminCalls, o \in Outcomes : deleteReportSettled(i, o)
  \/ \E i \in 1 .. MaxAdminCalls, o \in Outcomes : deleteUserSettled(i, o)

SpecAdmin == InitAdmin /\ [][NextAdmin]_vars

\* ================================================================ claims
Subs == 1 .. Len(subs)
RowIds == {row.id : row \in reportsTable}

\* C1 (as stated): every submission that reached onComplete has its image
\* uploaded and its row inserted in the reports table, online or offline.
C1_EveryCompletionPersisted ==
  \A i \in Subs :
    subs[i].pc = "complete" =>
      subs[i].report.id \in storageObjects /\ subs[i].report.id \in RowIds

\* C1 (amended): a submission that reached onComplete and was made online has
\* its image uploaded and its row inserted; one made offline has neither, at
\* submit time or at any later time, syncOfflineReports included.
C1_OnlineCompletionPersisted ==
  \A i \in Subs :
    subs[i].pc = "complete" =>
      IF subs[i].online
      THEN subs[i].report.id \in storageObjects /\ subs[i].report \in reportsTable
      ELSE subs[i].report.id \notin storageObjects /\ subs[i].report.id \notin RowIds

C1_Witness ==
  \E i \in Subs :
    /\ subs[i].pc = "complete" /\ subs[i].online
    /\ currentState = "complete"
    /\ subs[i].report \in reportsTable

\* C2 (as stated): two calls of analyzeAnimalImage on the same file return the
\* same animalType, for the classifier of utils/aiAnalysis.ts and for the one
\* that reads the file name.
C2_Deterministic ==
  /\ \A i, j \in 1 .. Len(anLog) : anLog[i].animalType = anLog[j].animalType
  /\ \A i, j \in 1 .. Len(anNameLog) :
       anNameLog[i].animalType = anNameLog[j].animalType

\* the species the file-name classifier is to name for a file
ExpectedSpecies(name) ==
  IF name = <<>> THEN "Unknown"
  ELSE CASE name[1] \in {"b", "B"} -> "Buffalo"
         [] name[1] \in {"z", "Z"} -> "Zebra"
         [] name[1] \in {"r", "R"} -> "Rhino"
         [] name[1] \in {"e", "E"} -> "Elephant"
         [] OTHER -> "Unknown"

\* C2 (amended): every call of the classifier of utils/aiAnalysis.ts returns an
\* animalType of the fixed list; every call of the file-name classifier on the
\* same file names the same species, the one of the first letter of the file
\* name whatever its case, followed by a confidence of 92 to 100.
C2_StubRange ==
  /\ \A i \in 1 .. Len(anLog) :
       \E n \in 1 .. Len(animalTypes) : anLog[i].animalType = animalTypes[n]
  /\ \A i \in 1 .. Len(anNameLog) :
       /\ anNameLog[i].animalType[1] = ExpectedSpecies(anFile)
       /\ anNameLog[i].animalType[2] \in 92 .. 100

C2_Witness ==
  /\ Len(anLog) >= 2 /\ anLog[1].animalType # anLog[2].animalType
  /\ Len(anNameLog) >= 2 /\ anNameLog[1] # anNameLog[2]
  /\ ExpectedSpecies(anFile) = "Buffalo"

\* what can change currentState in the current state
UserActionEnabled ==
  \/ UserTypeSelectionShown
  \/ AuthPageShown
  \/ CameraCaptureShown
  \/ DashboardShown
  \/ ReportGenerationShown /\ ~analyzing
SplashTimerPending == SplashScreenShown
ResetTimerPending == resetTimers > 0
AuthEffectPending == loading \/ signInPending > 0 \/ signOutPending > 0
CaptureCallbackPending == pendingCaptures # <<>>

TransitionSources ==
  {n \in {"user", "splash", "reset", "auth", "capture"} :
     \/ n = "user" /\ UserActionEnabled
     \/ n = "splash" /\ SplashTimerPending
     \/ n = "reset" /\ ResetTimerPending
     \/ n = "auth" /\ AuthEffectPending
     \/ n = "capture" /\ CaptureCallbackPending}

\* C3: in every reachable state at most one source of transition (a user
\* action on the displayed screen, the splash timer, the reset timer, the auth
\* effect, a pending capture callback) can change currentState.
C3_SingleTransitionSource == Cardinality(TransitionSources) <= 1

\* C4: currentState is one of the eight values of AppState in every reachable
\* state, and it is splash until the stored session has been loaded.
C4_CurrentStateInAppState ==
  /\ currentState \in AppState
  /\ loading => currentState = "splash"

C4_Witness == currentState = "complete" /\ resetTimers > 0

\* the dashboard or screen of a profile type
RoleScreen(p) ==
  CASE p = "ranger" -> "rangerDashboard"
    [] p = "admin" -> "adminDashboard"
    [] p = "community" -> "camera"

AuthEvent ==
  \/ loading /\ ~loading'
  \/ signInPending' < signInPending /\ <<user, profile>>' # <<NULL, NULL>>

\* C5: when auth finishes loading, or a sign-in settles, with a user and a
\* profile, currentState becomes the screen of the profile type; and no step
\* other than such an auth step, with a profile of that type, opens a dashboard.
C5_RoleRouting ==
  [][/\ (/\ <<loading, user, profile>>' # <<loading, user, profile>>
         /\ ~loading' /\ user' # NULL /\ profile' # NULL)
        => currentState' = RoleScreen(profile')
     /\ (/\ currentState' \in {"rangerDashboard", "adminDashboard"}
         /\ currentState' # currentState)
        => (/\ AuthEvent
            /\ ~loading' /\ user' # NULL /\ profile' # NULL
            /\ currentState' = RoleScreen(profile'))]_vars

C5_Witness ==
  /\ currentState = "adminDashboard" /\ selectedUserType = "admin"
  /\ ~loading /\ user # NULL /\ profile = "admin"

\* C6: after syncOfflineReports, getOfflineReports returns the empty list
\* whatever the queue held before, and nothing was sent to the backend.
C6_SyncClearsQueue ==
  lastCall.op = "sync" =>
    getOfflineReports = <<>> /\ storageObjects = {} /\ reportsTable = {}

C6_Witness ==
  lastCall.op = "sync" /\ Len(lastCall.before) = MaxQueue /\ getOfflineReports = <<>>

\* C7: after saveOfflineReport(r) with no storage error getOfflineReports
\* returns the list it returned before followed by r; after saves with no
\* clear in between the queue is the saved reports, once each, in the order
\* saved.
C7_SaveAppends ==
  /\ (lastCall.op = "save" /\ ~lastCall.failed)
       => getOfflineReports = Append(lastCall.before, lastCall.arg[1])
  /\ ~storageDenied => getOfflineReports = savesSinceClear

C7_Witness ==
  /\ lastCall.op = "save" /\ ~lastCall.failed /\ lastCall.before # <<>>
  /\ Len(getOfflineReports) = MaxQueue
  /\ getOfflineReports[1].user_id # getOfflineReports[2].user_id

\* C8: the coordinates of every report created are those the geolocation
\* success callback delivered, or the default ones after its error callback.
C8_CoordinatesFromGeolocation ==
  \A i \in Subs :
    /\ subs[i].geo # None
    /\ subs[i].geo[1].kind = "error" => subs[i].geo[1].coords = DefaultLocation
    /\ subs[i].report.latitude = subs[i].geo[1].coords.latitude
    /\ subs[i].report.longitude = subs[i].geo[1].coords.longitude

C8_Witness ==
  \E i \in Subs :
    /\ subs[i].geo # None /\ subs[i].geo[1].kind = "success"
    /\ subs[i].report.latitude = 0
    /\ subs[i].report.longitude # DefaultLocation.longitude

\* C9: a selection on the user-selection screen moves the controller to camera
\* when it is 'anonymous' and to auth when it is any other role.
C9_AnonymousSkipsAuth ==
  [][(UserTypeSelectionShown /\ selectedUserType' # selectedUserType
        /\ selectedUserType' \in userTypes)
       => currentState' = IF selectedUserType' = "anonymous" THEN "camera" ELSE "auth"]_vars

C9_Witness ==
  currentState = "camera" /\ selectedUserType = "anonymous" /\ ~loading /\ user = NULL

\* C10: the report created by a submission has user_id undefined when
\* selectedUserType is 'anonymous' at submit time, session or not, and else
\* the id of the current user, undefined when there is none.
C10_AnonymousHasNoUserId ==
  [][Len(subs') > Len(subs)
       => subs'[Len(subs')].report.user_id =
            IF selectedUserType = "anonymous" THEN UNDEFINED
            ELSE IF user = NULL THEN UNDEFINED ELSE user]_vars

C10_Witness ==
  \E i \in Subs :
    /\ subs[i].attached /\ subs[i].pc \in {"upload", "insert"}
    /\ ReportGenerationShown
    /\ selectedUserType = "anonymous" /\ user # NULL
    /\ subs[i].report.user_id = UNDEFINED

\* the user_type a caller's profile was created with (NULL: anonymous, or no
\* profile)
SignUpType(c) == IF c.role = "authenticated" THEN profileAtSignUp[c.uid] ELSE NULL

\* C11: a request that changed a row of reports with UPDATE was made by a user
\* who signed up as ranger or admin, one that removed a row with DELETE by a
\* user who signed up as admin: no sequence of requests by a community or
\* anonymous user changes or removes a report row.
C11_CommunityNeverChangesReports ==
  (lastRequest.table = "reports" /\ lastRequest.changed) =>
    CASE lastRequest.cmd = "UPDATE" ->
           SignUpType(lastRequest.caller[1]) \in {"ranger", "admin"}
      [] lastRequest.cmd = "DELETE" -> SignUpType(lastRequest.caller[1]) = "admin"
      [] OTHER -> TRUE

\* C12: online, the row is inserted only after the upload succeeded and carries
\* the public URL of that upload, the PDF is generated only after the insert
\* succeeded, and onComplete is called only after all three succeeded.
C12_OnlineOrdered ==
  /\ \A row \in reportsTable :
       row.id \in storageObjects /\ row.image_url = <<row.id>>
  /\ \A i \in Subs :
       subs[i].online =>
         /\ subs[i].pc = "insert" =>
              subs[i].report.id \in storageObjects /\ subs[i].report.id \notin pdfs
         /\ subs[i].pc = "upload" =>
              subs[i].report.id \notin RowIds /\ subs[i].report.id \notin pdfs
         /\ subs[i].report.id \in pdfs => subs[i].report \in reportsTable
         /\ subs[i].pc = "complete" =>
              /\ subs[i].report.id \in pdfs
              /\ subs[i].report \in reportsTable
              /\ subs[i].report.id \in storageObjects

C12_Witness ==
  \E i \in Subs :
    /\ subs[i].online /\ subs[i].pc = "complete" /\ ~onLine
    /\ subs[i].report.id \in pdfs
    /\ subs[i].report.image_url = <<subs[i].report.id>>
    /\ resetTimers > 0

\* submission i fails on this step at its upload or at its insert
FailsAtBackend(i) ==
  /\ i \in Subs /\ subs[i].pc \in {"upload", "insert"}
  /\ subs'[i].pc = "failed"

\* C13: when the upload or the insert of a submission fails, no PDF is
\* generated, onComplete is not called (no screen change, no reset timer), the
\* offline queue is unchanged, and in the instance that made the submission,
\* while it is mounted, error is the error's message or 'Failed to submit
\* report', report stays null and submitting is false, so that Submit Report
\* is enabled again.
C13_BackendFailureHandled ==
  [][\A i \in 1 .. MaxSubmits :
       FailsAtBackend(i) =>
         /\ pdfs' = pdfs
         /\ UNCHANGED <<appVars, resetTimers, localStorage, reportsTable>>
         /\ subs[i].attached =>
              /\ error' \in ({e.message : e \in Errors} \ {""})
                             \cup {"Failed to submit report"}
              /\ report = None /\ report' = None
              /\ submitting /\ ~submitting'
              /\ SubmitEnabled'
         /\ ~subs[i].attached => UNCHANGED reportVars]_vars

C13_Witness ==
  \E i \in Subs :
    /\ subs[i].pc = "failed" /\ subs[i].online
    /\ ReportGenerationShown /\ SubmitEnabled
    /\ error = "Failed to submit report"
    /\ subs[i].report.id \in storageObjects /\ reportsTable = {}

\* C14: a submission made offline uploads and inserts nothing, and when it
\* reaches onComplete the last element of the offline queue is that report:
\* tempId the report id, status 'pending', the captured imageDataUrl and the
\* report's coordinates.
C14_OfflineCompletionQueued ==
  [][(Len(subs') > Len(subs) /\ ~subs'[Len(subs')].online) =>
       LET sub == subs'[Len(subs')]
           queue == getOfflineReports'
       IN /\ UNCHANGED <<storageObjects, reportsTable>>
          /\ sub.pc = "complete" =>
               /\ queue # <<>>
               /\ queue[Len(queue)].tempId = sub.report.id
               /\ queue[Len(queue)].status = "pending"
               /\ queue[Len(queue)].imageDataUrl = sub.imageDataUrl
               /\ queue[Len(queue)].latitude = sub.report.latitude
               /\ queue[Len(queue)].longitude = sub.report.longitude]_vars

\* C15: submitReport with location null sets the error 'Location is required'
\* and changes nothing else (no report created, no upload, insert, offline
\* save or PDF, no onComplete, submitting still false); that error is set by
\* no other step, and no submission is created while location is null.
C15_LocationRequired ==
  [][/\ (error' = "Location is required" /\ error' # error) =>
          /\ location = None /\ ~submitting
          /\ UNCHANGED <<analyzing, submitting, animalType, location, report,
                          appVars, subs, storageObjects, reportsTable, localStorage,
                          pdfs, resetTimers>>
     /\ Len(subs') > Len(subs) => location # None]_vars

C15_Witness ==
  /\ ReportGenerationShown /\ ~analyzing
  /\ error = "Location is required" /\ location = None
  /\ subs = <<>> /\ ~submitting /\ report = None
  /\ localStorage = None /\ pdfs = {} /\ ~geolocationAvailable

\* the state the reset leaves the controller in
ResetDone ==
  currentState = "userSelection" /\ capturedImage = None /\ selectedUserType = ""

\* C16: handleReportComplete sets currentState to 'complete' and starts the
\* timer, and from the thank-you screen the controller eventually is at
\* userSelection with capturedImage null and selectedUserType empty.
C16_ResetAfterComplete ==
  /\ [][resetTimers' > resetTimers => currentState' = "complete"]_vars
  /\ (currentState = "complete") ~> ResetDone

C16_Witness ==
  /\ ResetDone /\ resetTimers = 0 /\ ~loading
  /\ \E i \in Subs : subs[i].pc = "complete"

\* C17: once every deleteReport and deleteUser call has finished, overlapping
\* or not, the analytics agree with the lists: totalReports is the number of
\* reports in the local list and totalUsers the number of users in it.
C17_AnalyticsAgreeWithLists ==
  (adminCalls = <<>> /\ analytics # None) =>
    /\ analytics[1].totalReports = Len(reports)
    /\ analytics[1].totalUsers = Len(users)

\* a list without its element at position k
DropAt(list, k) == SubSeq(list, 1, k - 1) \o SubSeq(list, k + 1, Len(list))

\* C18: when a deleteReport(id) call has finished deleting is null; with no
\* error from the backend the local list is the list of before without the
\* report of that id, the others in their order; with an error the list and
\* the analytics are those of before.
C18_DeleteReport ==
  lastDelete.kind = "report" =>
    /\ deleting = NULL
    /\ IF lastDelete.ok
       THEN LET before == lastDelete.reports
                at == {k \in 1 .. Len(before) : before[k].id = lastDelete.id}
            IN /\ Cardinality(at) <= 1
               /\ \A k \in at : reports = DropAt(before, k)
               /\ at = {} => reports = before
       ELSE reports = lastDelete.reports /\ analytics = lastDelete.analytics

C18_Witness ==
  /\ lastDelete.kind = "report" /\ lastDelete.ok /\ lastDelete.overlapped
  /\ Len(lastDelete.reports) = 3 /\ lastDelete.reports[2].id = lastDelete.id
  /\ Len(reports) = 2 /\ deleting = NULL /\ adminCalls # <<>>
====
